---- MODULE Spec2Model ----
(***************************************************************************)
(* Model of the Windows spooler transport of go-escpos                     *)
(* (src/printer_windows.go): the WindowsPrinter job lifecycle              *)
(* (NewWindowsPrinter / startDoc / Write / Close / Bytes) and the          *)
(* two-phase printer enumeration (GetInstalledPrinters).                   *)
(*                                                                         *)
(* Every winspool.drv procedure is an environment call whose outcome is    *)
(* chosen nondeterministically; each call is appended to the log `calls`.  *)
(***************************************************************************)
EXTENDS Integers, Sequences, FiniteSets, TLC

\* ---------------------------------------------------------------- bounds
MaxOps == 3          \* API calls made on one WindowsPrinter
MaxLen == 2          \* longest buffer handed to Write
MaxByte == 0         \* bytes are drawn from 0..MaxByte
MaxPrinters == 2     \* most printers the OS reports

\* ------------------------------------------------------- program constants
PRINTER_ENUM_LOCAL == 2
PRINTER_ENUM_CONNECTIONS == 4
\* a non-zero printer handle as stored by OpenPrinterW
HandleValue == 1

VARIABLES
  pc,          \* "new": NewWindowsPrinter not yet called, "ready": it returned
               \* the printer, "failed": it returned an error (wp is dropped),
               \* "zero": a zero-value WindowsPrinter used without constructor
  handle,      \* wp.handle (0 = no handle)
  jobStarted,  \* wp.jobStarted
  buffer,      \* wp.buffer
  calls,       \* log of every OS call issued on behalf of this printer
  ops,         \* history of API operations invoked, with their results
  last,        \* the most recent API operation: inputs, pre-state, result
  osPrinters,  \* printers currently installed (environment)
  enum         \* result of the most recent GetInstalledPrinters

vars == <<pc, handle, jobStarted, buffer, calls, ops, last, osPrinters, enum>>
printerVars == <<pc, handle, jobStarted, buffer, calls, ops, last>>
enumVars == <<osPrinters, enum>>

Byte == 0..MaxByte

RECURSIVE SeqsUpTo(_, _)
SeqsUpTo(S, n) ==
  IF n = 0 THEN {<<>>}
  ELSE LET shorter == SeqsUpTo(S, n - 1)
       IN  shorter \cup {Append(s, x) : s \in {t \in shorter : Len(t) = n - 1}, x \in S}

Buffers == SeqsUpTo(Byte, MaxLen)

\* One OS call: the procedure, whether it returned non-zero, the buffer
\* passed (WritePrinter only) and the count it stored in *pcWritten.
Call(fn, ok, arg, n) == [fn |-> fn, ok |-> ok, arg |-> arg, n |-> n]

NoErr == "nil"

\* startDoc as it would be if jobStarted were set without checking the
\* result of StartPagePrinter.
startDoc_IgnorePageFailure(sdOk, spOk) ==
  IF ~sdOk
    THEN [issued |-> <<Call("StartDocPrinterW", FALSE, <<>>, 0)>>,
          jobStarted |-> FALSE, err |-> "failed to start document"]
  ELSE [issued |-> <<Call("StartDocPrinterW", TRUE, <<>>, 0),
                     Call("StartPagePrinter", spOk, <<>>, 0)>>,
        jobStarted |-> TRUE, err |-> NoErr]

\* ------------------------------------------------------------- startDoc
\* lines 96-112: StartDocPrinterW, then StartPagePrinter, then jobStarted.
startDoc(sdOk, spOk) ==
  IF ~sdOk
    THEN [issued |-> <<Call("StartDocPrinterW", FALSE, <<>>, 0)>>,
          jobStarted |-> FALSE, err |-> "failed to start document"]
  ELSE IF ~spOk
    THEN [issued |-> <<Call("StartDocPrinterW", TRUE, <<>>, 0),
                       Call("StartPagePrinter", FALSE, <<>>, 0)>>,
          jobStarted |-> FALSE, err |-> "failed to start page"]
  ELSE [issued |-> <<Call("StartDocPrinterW", TRUE, <<>>, 0),
                     Call("StartPagePrinter", TRUE, <<>>, 0)>>,
        jobStarted |-> TRUE, err |-> NoErr]

\* Close as it would be if it gave up at the first failing step.
CloseResult_StopOnFailure(h, js, epOk, edOk, cpOk) ==
  IF js /\ ~epOk
    THEN [issued |-> <<Call("EndPagePrinter", FALSE, <<>>, 0)>>, handle |-> h,
          jobStarted |-> FALSE, err |-> "failed to end page"]
  ELSE IF js /\ ~edOk
    THEN [issued |-> <<Call("EndPagePrinter", TRUE, <<>>, 0),
                       Call("EndDocPrinter", FALSE, <<>>, 0)>>, handle |-> h,
          jobStarted |-> FALSE, err |-> "failed to end document"]
  ELSE LET job == IF js THEN <<Call("EndPagePrinter", TRUE, <<>>, 0),
                               Call("EndDocPrinter", TRUE, <<>>, 0)>>
                        ELSE <<>>
       IN  IF h # 0
             THEN [issued |-> job \o <<Call("ClosePrinter", cpOk, <<>>, 0)>>,
                   handle |-> IF cpOk THEN 0 ELSE h, jobStarted |-> FALSE,
                   err |-> IF cpOk THEN NoErr ELSE "failed to close printer"]
             ELSE [issued |-> job, handle |-> h, jobStarted |-> FALSE, err |-> NoErr]

\* Close as it would be without `wp.handle = 0` after a successful release.
CloseResult_KeepHandle(h, js, epOk, edOk, cpOk) ==
  LET job == IF js THEN <<Call("EndPagePrinter", epOk, <<>>, 0),
                          Call("EndDocPrinter", edOk, <<>>, 0)>>
                   ELSE <<>>
  IN  IF h # 0
        THEN [issued |-> job \o <<Call("ClosePrinter", cpOk, <<>>, 0)>>,
              handle |-> h, jobStarted |-> FALSE,
              err |-> IF cpOk THEN NoErr ELSE "failed to close printer"]
        ELSE [issued |-> job, handle |-> h, jobStarted |-> FALSE, err |-> NoErr]

\* Close as it would be if it ended page and document whenever a handle is
\* held, without consulting jobStarted.
CloseResult_AlwaysEndJob(h, js, epOk, edOk, cpOk) ==
  LET job == IF js \/ h # 0 THEN <<Call("EndPagePrinter", epOk, <<>>, 0),
                                    Call("EndDocPrinter", edOk, <<>>, 0)>>
                   ELSE <<>>
  IN  IF h # 0
        THEN [issued |-> job \o <<Call("ClosePrinter", cpOk, <<>>, 0)>>,
              handle |-> IF cpOk THEN 0 ELSE h, jobStarted |-> FALSE,
              err |-> IF cpOk THEN NoErr ELSE "failed to close printer"]
        ELSE [issued |-> job, handle |-> h, jobStarted |-> FALSE, err |-> NoErr]

\* Close as it would be without `wp.jobStarted = false`.
CloseResult_KeepJob(h, js, epOk, edOk, cpOk) ==
  LET job == IF js THEN <<Call("EndPagePrinter", epOk, <<>>, 0),
                          Call("EndDocPrinter", edOk, <<>>, 0)>>
                   ELSE <<>>
  IN  IF h # 0
        THEN [issued |-> job \o <<Call("ClosePrinter", cpOk, <<>>, 0)>>,
              handle |-> IF cpOk THEN 0 ELSE h, jobStarted |-> js,
              err |-> IF cpOk THEN NoErr ELSE "failed to close printer"]
        ELSE [issued |-> job, handle |-> h, jobStarted |-> js, err |-> NoErr]

\* Close as it would be if it cleared wp.handle whether or not ClosePrinter
\* succeeded.
CloseResult_ZeroOnFailure(h, js, epOk, edOk, cpOk) ==
  LET job == IF js THEN <<Call("EndPagePrinter", epOk, <<>>, 0),
                          Call("EndDocPrinter", edOk, <<>>, 0)>>
                   ELSE <<>>
  IN  IF h # 0
        THEN [issued |-> job \o <<Call("ClosePrinter", cpOk, <<>>, 0)>>,
              handle |-> 0, jobStarted |-> FALSE,
              err |-> IF cpOk THEN NoErr ELSE "failed to close printer"]
        ELSE [issued |-> job, handle |-> h, jobStarted |-> FALSE, err |-> NoErr]

\* ---------------------------------------------------------------- Close
\* lines 144-160.  The results of EndPagePrinter and EndDocPrinter are
\* discarded; only ClosePrinter's result is inspected.
CloseResult(h, js, epOk, edOk, cpOk) ==
  LET job == IF js THEN <<Call("EndPagePrinter", epOk, <<>>, 0),
                          Call("EndDocPrinter", edOk, <<>>, 0)>>
                   ELSE <<>>
  IN  IF h # 0
        THEN IF ~cpOk
               THEN [issued |-> job \o <<Call("ClosePrinter", FALSE, <<>>, 0)>>,
                     handle |-> h, jobStarted |-> FALSE,
                     err |-> "failed to close printer"]
               ELSE [issued |-> job \o <<Call("ClosePrinter", TRUE, <<>>, 0)>>,
                     handle |-> 0, jobStarted |-> FALSE, err |-> NoErr]
        ELSE [issued |-> job, handle |-> h, jobStarted |-> FALSE, err |-> NoErr]

\* The constructor as it would be without the `ret == 0` check after
\* OpenPrinterW.
NewResult_IgnoreOpenFailure(openOk, sdOk, spOk, epOk, edOk, cpOk) ==
  LET h == IF openOk THEN HandleValue ELSE 0
      sd == startDoc(sdOk, spOk)
      cl == CloseResult(h, sd.jobStarted, epOk, edOk, cpOk)
      open == <<Call("OpenPrinterW", openOk, <<>>, 0)>>
  IN  IF sd.err # NoErr
        THEN [issued |-> open \o sd.issued \o cl.issued, unwind |-> cl.issued,
              handle |-> cl.handle, jobStarted |-> cl.jobStarted,
              err |-> sd.err, pc |-> "failed"]
        ELSE [issued |-> open \o sd.issued, unwind |-> <<>>,
              handle |-> h, jobStarted |-> sd.jobStarted,
              err |-> NoErr, pc |-> "ready"]

\* The constructor as it would be without `wp.Close()` on a failed startDoc.
NewResult_NoCleanup(openOk, sdOk, spOk, epOk, edOk, cpOk) ==
  IF ~openOk
    THEN [issued |-> <<Call("OpenPrinterW", FALSE, <<>>, 0)>>, unwind |-> <<>>,
          handle |-> 0, jobStarted |-> FALSE,
          err |-> "failed to open printer", pc |-> "failed"]
  ELSE LET sd == startDoc(sdOk, spOk)
           open == <<Call("OpenPrinterW", TRUE, <<>>, 0)>>
       IN  [issued |-> open \o sd.issued, unwind |-> <<>>,
            handle |-> HandleValue, jobStarted |-> sd.jobStarted,
            err |-> sd.err, pc |-> IF sd.err # NoErr THEN "failed" ELSE "ready"]

\* ---------------------------------------------------- NewWindowsPrinter
\* lines 50-77.  On a failed OpenPrinterW the handle is left at zero and
\* nothing else is called; on a failed startDoc the constructor runs Close
\* and discards its result.
NewResult(openOk, sdOk, spOk, epOk, edOk, cpOk) ==
  IF ~openOk
    THEN [issued |-> <<Call("OpenPrinterW", FALSE, <<>>, 0)>>, unwind |-> <<>>,
          handle |-> 0, jobStarted |-> FALSE,
          err |-> "failed to open printer", pc |-> "failed"]
  ELSE LET sd == startDoc(sdOk, spOk)
           cl == CloseResult(HandleValue, sd.jobStarted, epOk, edOk, cpOk)
           open == <<Call("OpenPrinterW", TRUE, <<>>, 0)>>
       IN  IF sd.err # NoErr
             THEN [issued |-> open \o sd.issued \o cl.issued, unwind |-> cl.issued,
                   handle |-> cl.handle, jobStarted |-> cl.jobStarted,
                   err |-> sd.err, pc |-> "failed"]
             ELSE [issued |-> open \o sd.issued, unwind |-> <<>>,
                   handle |-> HandleValue, jobStarted |-> sd.jobStarted,
                   err |-> NoErr, pc |-> "ready"]

\* Write as it would be without the jobStarted guard.
WriteResult_NoGuard(js, buf, p, ret, written) ==
  IF Len(p) = 0
    THEN [issued |-> <<>>, n |-> 0, err |-> "panic: index out of range", buffer |-> buf]
  ELSE IF ~ret
    THEN [issued |-> <<Call("WritePrinter", FALSE, p, written)>>, n |-> written,
          err |-> "failed to write to printer", buffer |-> buf]
  ELSE [issued |-> <<Call("WritePrinter", TRUE, p, written)>>, n |-> written,
        err |-> NoErr, buffer |-> buf \o p]

\* Write as it would be if a failed WritePrinter were retried once.
WriteResult_Retry(js, buf, p, ret, written) ==
  IF ~js
    THEN [issued |-> <<>>, n |-> 0, err |-> "print job not started", buffer |-> buf]
  ELSE IF Len(p) = 0
    THEN [issued |-> <<>>, n |-> 0, err |-> "panic: index out of range", buffer |-> buf]
  ELSE IF ~ret
    THEN [issued |-> <<Call("WritePrinter", FALSE, p, written),
                       Call("WritePrinter", FALSE, p, written)>>, n |-> written,
          err |-> "failed to write to printer", buffer |-> buf]
  ELSE [issued |-> <<Call("WritePrinter", TRUE, p, written)>>, n |-> written,
        err |-> NoErr, buffer |-> buf \o p]

\* ---------------------------------------------------------------- Write
\* lines 116-136.  &p[0] on an empty slice is an index-out-of-range panic,
\* raised before WritePrinter is called.
WriteResult(js, buf, p, ret, written) ==
  IF ~js
    THEN [issued |-> <<>>, n |-> 0, err |-> "print job not started", buffer |-> buf]
  ELSE IF Len(p) = 0
    THEN [issued |-> <<>>, n |-> 0, err |-> "panic: index out of range", buffer |-> buf]
  ELSE IF ~ret
    THEN [issued |-> <<Call("WritePrinter", FALSE, p, written)>>, n |-> written,
          err |-> "failed to write to printer", buffer |-> buf]
  ELSE [issued |-> <<Call("WritePrinter", TRUE, p, written)>>, n |-> written,
        err |-> NoErr, buffer |-> buf \o p]

\* Bytes(), lines 163-165
Bytes == buffer

\* -------------------------------------------------- GetInstalledPrinters
\* An installed printer as EnumPrintersW level 4 reports it: PrinterName is
\* either a null pointer or a NUL-terminated UTF-16 string.
PrinterInfos ==
  {[null |-> TRUE, name |-> <<>>]} \cup
  {[null |-> FALSE, name |-> nm] : nm \in {<<80, 0>>, <<80, 81, 0>>}}

PrinterLists == SeqsUpTo(PrinterInfos, MaxPrinters)

\* bytes EnumPrintersW needs for one entry: the PRINTER_INFO_4 structure
\* (lines 29-33, two pointers and a uint32, padded) plus the name string
InfoSize == 24
EntryBytes(info) == InfoSize + (IF info.null THEN 0 ELSE 2 * Len(info.name))

\* syscall.UTF16ToString (line 209): the code units before the first NUL
RECURSIVE UTF16ToString(_)
UTF16ToString(units) ==
  IF units = <<>> \/ Head(units) = 0 THEN <<>>
  ELSE <<Head(units)>> \o UTF16ToString(Tail(units))

RECURSIVE BytesNeeded(_)
BytesNeeded(list) ==
  IF list = <<>> THEN 0 ELSE EntryBytes(Head(list)) + BytesNeeded(Tail(list))

\* lines 204-212: the names of the entries whose PrinterName is not nil
RECURSIVE ParseNames(_)
ParseNames(list) ==
  IF list = <<>> THEN <<>>
  ELSE IF Head(list).null THEN ParseNames(Tail(list))
  ELSE <<UTF16ToString(Head(list).name)>> \o ParseNames(Tail(list))

\* one EnumPrintersW call: buffer size passed, return value, *pcbNeeded and
\* *pcReturned after the call
EnumCall(flags, cbBuf, ok, needed, returned) ==
  [fn |-> "EnumPrintersW", flags |-> flags, cbBuf |-> cbBuf, ok |-> ok,
   needed |-> needed, returned |-> returned]

\* The size query (lines 173-181) made with a zero-length buffer on a system
\* whose printers are `first`: it succeeds only if nothing is to be returned;
\* otherwise it fails and, unless the spooler failed outright (q1Up = FALSE),
\* stores the size needed.
SizeQuery(flags, first, q1Up) ==
  IF ~q1Up THEN EnumCall(flags, 0, FALSE, 0, 0)
  ELSE EnumCall(flags, 0, BytesNeeded(first) = 0, BytesNeeded(first), 0)

\* The fetch (lines 189-197) with a buffer of cbBuf bytes on a system whose
\* printers are now `second`.
Fetch(flags, cbBuf, second, q2Up) ==
  IF ~q2Up THEN EnumCall(flags, cbBuf, FALSE, cbBuf, 0)
  ELSE IF BytesNeeded(second) > cbBuf
    THEN EnumCall(flags, cbBuf, FALSE, BytesNeeded(second), 0)
  ELSE EnumCall(flags, cbBuf, TRUE, BytesNeeded(second), Len(second))

\* The enumeration as it would be without the `needed == 0` early return.
EnumResult_NoEmptyCheck(first, q1Up, second, q2Up) ==
  LET flags == PRINTER_ENUM_LOCAL + PRINTER_ENUM_CONNECTIONS
      q1 == SizeQuery(flags, first, q1Up)
      q2 == Fetch(flags, q1.needed, second, q2Up)
  IN  IF ~q2.ok
        THEN [done |-> TRUE, calls |-> <<q1, q2>>, list |-> <<>>,
              isNil |-> TRUE, err |-> "failed to enumerate printers"]
        ELSE [done |-> TRUE, calls |-> <<q1, q2>>,
              list |-> ParseNames(second), isNil |-> FALSE, err |-> NoErr]

\* lines 168-215
EnumResult(first, q1Up, second, q2Up) ==
  LET flags == PRINTER_ENUM_LOCAL + PRINTER_ENUM_CONNECTIONS
      q1 == SizeQuery(flags, first, q1Up)
  IN  IF q1.needed = 0
        THEN [done |-> TRUE, calls |-> <<q1>>, list |-> <<>>, isNil |-> FALSE,
              err |-> NoErr]
      ELSE LET q2 == Fetch(flags, q1.needed, second, q2Up)
           IN  IF ~q2.ok
                 THEN [done |-> TRUE, calls |-> <<q1, q2>>, list |-> <<>>,
                       isNil |-> TRUE, err |-> "failed to enumerate printers"]
                 ELSE [done |-> TRUE, calls |-> <<q1, q2>>,
                       list |-> ParseNames(second), isNil |-> FALSE, err |-> NoErr]

\* ------------------------------------------------------------- actions
Pre == [handle |-> handle, jobStarted |-> jobStarted, buffer |-> buffer]

Record(op, arg, n, err, issued, unwind) ==
  /\ last' = [op |-> op, arg |-> arg, n |-> n, err |-> err,
              issued |-> issued, unwind |-> unwind, pre |-> Pre]
  /\ ops' = Append(ops, [op |-> op, arg |-> arg, n |-> n, err |-> err])
  /\ calls' = calls \o issued

NewWindowsPrinter ==
  /\ pc = "new"
  /\ \E openOk, sdOk, spOk, epOk, edOk, cpOk \in BOOLEAN :
       LET r == NewResult(openOk, sdOk, spOk, epOk, edOk, cpOk)
       IN  /\ pc' = r.pc
           /\ handle' = r.handle
           /\ jobStarted' = r.jobStarted
           /\ buffer' = <<>>
           /\ Record("New", <<>>, 0, r.err, r.issued, r.unwind)
  /\ UNCHANGED enumVars

Write ==
  /\ pc \in {"zero", "ready"}
  /\ Len(ops) < MaxOps
  /\ \E p \in Buffers : \E ret \in BOOLEAN : \E written \in 0..Len(p) :
       LET r == WriteResult(jobStarted, buffer, p, ret, written)
       IN  /\ buffer' = r.buffer
           /\ Record("Write", p, r.n, r.err, r.issued, <<>>)
  /\ UNCHANGED <<pc, handle, jobStarted>>
  /\ UNCHANGED enumVars

Close ==
  /\ pc \in {"zero", "ready"}
  /\ Len(ops) < MaxOps
  /\ \E epOk, edOk, cpOk \in BOOLEAN :
       LET r == CloseResult(handle, jobStarted, epOk, edOk, cpOk)
       IN  /\ handle' = r.handle
           /\ jobStarted' = r.jobStarted
           /\ Record("Close", <<>>, 0, r.err, r.issued, r.issued)
  /\ UNCHANGED <<pc, buffer>>
  /\ UNCHANGED enumVars

\* The printer set may change between the size query and the fetch.
GetInstalledPrinters ==
  /\ \E second \in PrinterLists : \E q1Up, q2Up \in BOOLEAN :
       /\ enum' = EnumResult(osPrinters, q1Up, second, q2Up)
       /\ osPrinters' = IF enum'.calls[1].needed = 0 THEN osPrinters ELSE second
  /\ UNCHANGED printerVars

\* environment: a printer is installed or removed
InstallPrinter ==
  /\ Len(osPrinters) < MaxPrinters
  /\ \E info \in PrinterInfos : osPrinters' = Append(osPrinters, info)
  /\ UNCHANGED <<enum>>
  /\ UNCHANGED printerVars

RemovePrinter ==
  /\ osPrinters # <<>>
  /\ osPrinters' = Tail(osPrinters)
  /\ UNCHANGED <<enum>>
  /\ UNCHANGED printerVars

NoOp == [op |-> "none", arg |-> <<>>, n |-> 0, err |-> NoErr, issued |-> <<>>,
         unwind |-> <<>>, pre |-> [handle |-> 0, jobStarted |-> FALSE, buffer |-> <<>>]]

NoEnum == [done |-> FALSE, calls |-> <<>>, list |-> <<>>, isNil |-> TRUE, err |-> NoErr]

Init ==
  /\ pc \in {"new", "zero"}
  /\ handle = 0
  /\ jobStarted = FALSE
  /\ buffer = <<>>
  /\ calls = <<>>
  /\ ops = <<>>
  /\ last = NoOp
  /\ osPrinters = <<>>
  /\ enum = NoEnum

Next == NewWindowsPrinter \/ Write \/ Close

Spec == Init /\ [][Next]_vars

\* the enumeration function with its environment
NextEnum == GetInstalledPrinters \/ InstallPrinter \/ RemovePrinter

SpecEnum == Init /\ [][NextEnum]_vars

\* ===================================================================
\* Properties
\* ===================================================================
Fns(seq) == [i \in DOMAIN seq |-> seq[i].fn]
HasCall(seq, fn) == \E i \in DOMAIN seq : seq[i].fn = fn
HasOk(seq, fn) == \E i \in DOMAIN seq : seq[i].fn = fn /\ seq[i].ok
AllOk(seq) == \A i \in DOMAIN seq : seq[i].ok
\* the last operation ran Close: the caller's, or the constructor's failure path
RanClose ==
  \/ last.op = "Close"
  \/ last.op = "New" /\ last.err # NoErr /\ HasOk(last.issued, "OpenPrinterW")
\* the handle Close found when it ran
HandleAtClose == IF last.op = "New" THEN HandleValue ELSE last.pre.handle

\* C1: a Write made while jobStarted is false returns an error and a count of
\* 0, issues no OS call, and leaves handle, jobStarted and buffer as they were.
C1_WriteOutsidePageRejected ==
  (last.op = "Write" /\ ~last.pre.jobStarted) =>
     /\ last.err = "print job not started"
     /\ last.n = 0
     /\ last.issued = <<>>
     /\ handle = last.pre.handle
     /\ jobStarted = last.pre.jobStarted
     /\ buffer = last.pre.buffer

\* a non-empty Write on a constructed printer after it was closed, the
\* handle still recorded because its release failed
C1_Witness ==
  /\ pc = "ready"
  /\ last.op = "Write"
  /\ ~last.pre.jobStarted
  /\ last.pre.handle # 0
  /\ Len(last.arg) > 0

\* C2: constructor, one Write(b), one Close, every OS call succeeding, yields
\* exactly OpenPrinter, StartDocument, StartPage, Write(b), EndPage,
\* EndDocument, ReleaseHandle.
C2_HappyPathCallSequence ==
  (/\ Len(ops) = 3
   /\ ops[1].op = "New" /\ ops[2].op = "Write" /\ ops[3].op = "Close"
   /\ AllOk(calls)) =>
     /\ Fns(calls) = <<"OpenPrinterW", "StartDocPrinterW", "StartPagePrinter",
                       "WritePrinter", "EndPagePrinter", "EndDocPrinter",
                       "ClosePrinter">>
     /\ calls[4].arg = ops[2].arg

\* C3: the first Close after opening (the constructor's or the caller's)
\* issues EndPage iff StartPage succeeded, EndDocument iff StartDocument
\* succeeded, ReleaseHandle iff OpenPrinter succeeded, in that order.
C3_UnwindMirrorsOpen ==
  (\/ last.op = "New" /\ last.err # NoErr
   \/ /\ last.op = "Close"
      /\ Cardinality({i \in DOMAIN ops : ops[i].op = "Close"}) = 1) =>
     Fns(last.unwind) =
          (IF HasOk(calls, "StartPagePrinter") THEN <<"EndPagePrinter">> ELSE <<>>)
       \o (IF HasOk(calls, "StartDocPrinterW") THEN <<"EndDocPrinter">> ELSE <<>>)
       \o (IF HasOk(calls, "OpenPrinterW") THEN <<"ClosePrinter">> ELSE <<>>)

\* C4: Close in PageStarted issues EndPage, EndDocument and ReleaseHandle,
\* whatever the outcome of each.
C4_CloseRunsEveryStep ==
  (last.op = "Close" /\ last.pre.jobStarted) =>
     Fns(last.issued) = <<"EndPagePrinter", "EndDocPrinter", "ClosePrinter">>

\* Close in PageStarted where both EndPage and EndDocument failed
C4_Witness ==
  /\ last.op = "Close"
  /\ last.pre.jobStarted
  /\ Len(last.issued) = 3
  /\ ~last.issued[1].ok
  /\ ~last.issued[2].ok

\* C5: Close returns an error iff one of the steps it executed failed, and
\* the error is that of the first failing step.
C5_CloseReportsFirstFailure ==
  last.op = "Close" =>
     LET failed == {i \in DOMAIN last.issued : ~last.issued[i].ok}
         first == CHOOSE i \in failed : \A j \in failed : i <= j
     IN  IF failed = {} THEN last.err = NoErr
         ELSE /\ last.err # NoErr
              /\ last.issued[first].fn = "ClosePrinter"
                   => last.err = "failed to close printer"
              /\ last.issued[first].fn # "ClosePrinter"
                   => last.err # "failed to close printer"

C7_ShortWriteIsError ==
  (/\ last.op = "Write"
   /\ last.pre.jobStarted
   /\ Len(last.issued) >= 1
   /\ last.issued[1].n < Len(last.arg)) =>
     /\ last.err # NoErr
     /\ last.n = last.issued[1].n
     /\ Len(last.issued) = 1

\* C8: Close run with a handle held and no document started issues
\* ReleaseHandle once and nothing else.
C8_CloseAfterOpenOnly ==
  (/\ RanClose
   /\ HandleAtClose # 0
   /\ ~HasOk(calls, "StartDocPrinterW")) =>
     Fns(last.unwind) = <<"ClosePrinter">>

\* the Close run by the constructor after StartDocument failed
C8_Witness ==
  /\ last.op = "New"
  /\ HasOk(calls, "OpenPrinterW")
  /\ HasCall(calls, "StartDocPrinterW")
  /\ ~HasOk(calls, "StartDocPrinterW")
  /\ Len(last.unwind) = 1

\* C9: after a failed OpenPrinter the constructor returns an error, no
\* printer, and no further OS call is ever issued.
C9_OpenFailureStopsEverything ==
  (/\ Len(calls) >= 1
   /\ calls[1].fn = "OpenPrinterW"
   /\ ~calls[1].ok) =>
     /\ Len(calls) = 1
     /\ pc = "failed"
     /\ last.op = "New"
     /\ last.err = "failed to open printer"
     /\ handle = 0
     /\ ~jobStarted

\* the constructor returned after OpenPrinter failed
C9_Witness ==
  /\ pc = "failed"
  /\ Len(calls) = 1
  /\ calls[1].fn = "OpenPrinterW"
  /\ ~calls[1].ok

\* C10: when the size query reports zero bytes needed, GetInstalledPrinters
\* returns an empty, non-nil list and no error after that single OS call.
C10_NoPrintersEmptyList ==
  (enum.done /\ enum.calls[1].needed = 0) =>
     /\ enum.list = <<>>
     /\ ~enum.isNil
     /\ enum.err = NoErr
     /\ Len(enum.calls) = 1

\* enumeration on a system with no printers, the size query succeeding
C10_Witness ==
  /\ enum.done
  /\ osPrinters = <<>>
  /\ enum.calls[1].ok
  /\ enum.calls[1].needed = 0

\* the bytes the OS reported as written, over the successful WritePrinter
\* calls of a log, in call order
RECURSIVE ReportedWritten(_)
ReportedWritten(seq) ==
  IF seq = <<>> THEN <<>>
  ELSE (IF Head(seq).fn = "WritePrinter" /\ Head(seq).ok
          THEN SubSeq(Head(seq).arg, 1, Head(seq).n) ELSE <<>>)
       \o ReportedWritten(Tail(seq))

\* C11: Bytes() is the concatenation, in call order, of the bytes the OS
\* reported as written by each successful Write; nothing of a failed Write
\* and no unwritten tail of a partial one.
C11_BytesAreWhatWasWritten ==
  Bytes = ReportedWritten(calls)

\* Close was invoked at some point / before the most recent operation
CloseInvoked == \E i \in DOMAIN ops : ops[i].op = "Close"
ClosedBefore == \E i \in 1..(Len(ops) - 1) : ops[i].op = "Close"

\* C12: once Close has been invoked jobStarted is never true again; every
\* later Write fails without reaching the OS, and no StartDocument, StartPage
\* or write call is issued after the first Close.
C12_CloseIsMonotonic ==
  /\ CloseInvoked => ~jobStarted
  /\ ClosedBefore =>
       /\ ~last.pre.jobStarted
       /\ ~HasCall(last.issued, "StartDocPrinterW")
       /\ ~HasCall(last.issued, "StartPagePrinter")
       /\ ~HasCall(last.issued, "WritePrinter")
       /\ last.op = "Write" =>
            (last.err = "print job not started" /\ last.n = 0 /\ buffer = last.pre.buffer)

\* a printer that reached PageStarted, was closed, and then written to
C12_Witness ==
  /\ Len(ops) = 3
  /\ ops[1].op = "New" /\ ops[1].err = NoErr
  /\ ops[2].op = "Close"
  /\ ops[3].op = "Write" /\ Len(ops[3].arg) > 0
  /\ HasCall(calls, "EndDocPrinter")

\* C13: a constructor that fails after OpenPrinter succeeded has issued
\* ReleaseHandle (once, as its last OS call) before returning, and the handle
\* is no longer recorded when that release succeeded; a constructor that
\* returns a printer has seen OpenPrinter, StartDocument and StartPage all
\* succeed and leaves the printer in PageStarted.
C13_ConstructorReleasesOrStarts ==
  /\ (last.op = "New" /\ last.err # NoErr /\ HasOk(last.issued, "OpenPrinterW")) =>
       /\ pc = "failed"
       /\ last.issued[Len(last.issued)].fn = "ClosePrinter"
       /\ Cardinality({i \in DOMAIN last.issued : last.issued[i].fn = "ClosePrinter"}) = 1
       /\ last.issued[Len(last.issued)].ok => handle = 0
       /\ ~jobStarted
  /\ (last.op = "New" /\ last.err = NoErr) =>
       /\ pc = "ready"
       /\ Fns(last.issued) = <<"OpenPrinterW", "StartDocPrinterW", "StartPagePrinter">>
       /\ AllOk(last.issued)
       /\ jobStarted
       /\ handle = HandleValue
  /\ pc = "ready" => (ops[1].op = "New" /\ ops[1].err = NoErr)

\* the constructor failed at StartPage and released the handle
C13_Witness ==
  /\ last.op = "New"
  /\ HasOk(calls, "StartDocPrinterW")
  /\ HasCall(calls, "StartPagePrinter")
  /\ ~HasOk(calls, "StartPagePrinter")
  /\ HasOk(calls, "ClosePrinter")
  /\ handle = 0

\* C14: a Write in PageStarted whose OS write call fails issues that one OS
\* call only, returns the error with the count the OS reported, and leaves
\* jobStarted, handle and buffer as they were; the Write after it is again
\* forwarded to the OS.
C14_FailedWriteLeavesState ==
  /\ (/\ last.op = "Write"
      /\ last.pre.jobStarted
      /\ Len(last.issued) >= 1
      /\ ~last.issued[1].ok) =>
        /\ Len(last.issued) = 1
        /\ last.issued[1].arg = last.arg
        /\ last.err = "failed to write to printer"
        /\ last.n = last.issued[1].n
        /\ jobStarted
        /\ handle = last.pre.handle
        /\ handle # 0
        /\ buffer = last.pre.buffer
  /\ (/\ Len(ops) >= 2
      /\ ops[Len(ops) - 1].op = "Write"
      /\ ops[Len(ops) - 1].err = "failed to write to printer"
      /\ last.op = "Write"
      /\ Len(last.arg) > 0) =>
        /\ Len(last.issued) = 1
        /\ last.issued[1].fn = "WritePrinter"
        /\ last.issued[1].arg = last.arg

\* a failed Write (the OS reporting one byte) followed by a successful one
C14_Witness ==
  /\ Len(ops) = 3
  /\ ops[2].op = "Write" /\ ops[2].err = "failed to write to printer" /\ ops[2].n = 1
  /\ ops[3].op = "Write" /\ ops[3].err = NoErr
  /\ buffer = ops[3].arg
  /\ Len(buffer) > 0

\* C15: GetInstalledPrinters issues one size query (empty buffer), then, when
\* the needed size is non-zero, exactly one fetch with a buffer of exactly
\* that size; and whenever an enumeration call failed (the size query for a
\* reason other than the expected too-small buffer, or the fetch for any
\* reason, a grown printer set included) it returns an error and no list.
C15_EnumerationAbsorbsNoFailure ==
  enum.done =>
     /\ enum.calls[1].cbBuf = 0
     /\ IF enum.calls[1].needed = 0
          THEN Len(enum.calls) = 1
          ELSE Len(enum.calls) = 2 /\ enum.calls[2].cbBuf = enum.calls[1].needed
     /\ (\/ ~enum.calls[1].ok /\ enum.calls[1].needed = 0
         \/ Len(enum.calls) = 2 /\ ~enum.calls[2].ok) =>
          (enum.err # NoErr /\ enum.isNil /\ enum.list = <<>>)

\* C16: a Write in PageStarted with an empty buffer returns normally with a
\* count of 0 (no out-of-range access) and leaves the printer in PageStarted.
C16_EmptyWriteCompletes ==
  (last.op = "Write" /\ last.pre.jobStarted /\ last.arg = <<>>) =>
     /\ last.err # "panic: index out of range"
     /\ last.n = 0
     /\ jobStarted
     /\ handle = last.pre.handle

CountCalls(seq, fn) == Cardinality({i \in DOMAIN seq : seq[i].fn = fn})

\* C17: over any sequence of Close calls EndPage and EndDocument are issued
\* at most once each; no ReleaseHandle follows a successful one; after a
\* failed ReleaseHandle the handle stays recorded and the next Close issues
\* the release alone.
C17_NoDoubleUnwind ==
  /\ CountCalls(calls, "EndPagePrinter") <= 1
  /\ CountCalls(calls, "EndDocPrinter") <= 1
  /\ \A i, j \in DOMAIN calls :
       (i < j /\ calls[i].fn = "ClosePrinter" /\ calls[i].ok) => calls[j].fn # "ClosePrinter"
  /\ (RanClose /\ HasCall(last.unwind, "ClosePrinter")) =>
       (handle = 0 <=> last.unwind[Len(last.unwind)].ok)
  /\ (/\ last.op = "Close"
      /\ Len(ops) >= 2
      /\ ops[Len(ops) - 1].op = "Close"
      /\ ops[Len(ops) - 1].err # NoErr) =>
        (Fns(last.issued) = <<"ClosePrinter">> /\ last.pre.handle = HandleValue)

\* a Close whose release failed after the job was ended, then a Close that
\* released the handle
C17_Witness ==
  /\ Len(ops) = 3
  /\ ops[2].op = "Close" /\ ops[2].err # NoErr
  /\ ops[3].op = "Close" /\ ops[3].err = NoErr
  /\ CountCalls(calls, "EndPagePrinter") = 1
  /\ CountCalls(calls, "ClosePrinter") = 2
  /\ handle = 0

\* C18: jobStarted implies that the handle is recorded, StartPage succeeded
\* and no ReleaseHandle was issued; every OS write, EndPage and EndDocument
\* call comes after a successful OpenPrinter and StartPage and before any
\* ReleaseHandle.
C18_JobImpliesOpenHandle ==
  /\ jobStarted =>
       /\ handle = HandleValue
       /\ HasOk(calls, "OpenPrinterW")
       /\ HasOk(calls, "StartPagePrinter")
       /\ ~HasCall(calls, "ClosePrinter")
  /\ \A i \in DOMAIN calls :
       calls[i].fn \in {"WritePrinter", "EndPagePrinter", "EndDocPrinter"} =>
         /\ \E j \in 1..(i - 1) : calls[j].fn = "OpenPrinterW" /\ calls[j].ok
         /\ \E j \in 1..(i - 1) : calls[j].fn = "StartPagePrinter" /\ calls[j].ok
         /\ \A j \in 1..(i - 1) : calls[j].fn # "ClosePrinter"

\* a job that was written to and then ended
C18_Witness ==
  /\ HasOk(calls, "WritePrinter")
  /\ HasCall(calls, "EndPagePrinter")
  /\ HasCall(calls, "EndDocPrinter")
  /\ ~jobStarted
====
